---- MODULE Spec2Model ----
(***************************************************************************)
(* Model of the vennboxd recommendation engine (src/utils.py) and of the   *)
(* sort step of its caller (src/app.py).                                   *)
(*                                                                         *)
(* Conventions.                                                            *)
(*  - Text (titles, slugs) is a sequence of character codes, so that       *)
(*    strip(), lower() and title() are computed, not assumed.              *)
(*  - A Python value that may be None is a sequence of length 0 or 1:      *)
(*    None is <<>>, the value x is <<x>>.                                  *)
(*  - A dict that is iterated in insertion order is a sequence of records. *)
(*  - Scores are kept exact: a similarity point is counted in thirds       *)
(*    (100 is 300, 100/3 is 100), discovery_weight in tenths, and a score  *)
(*    in thirtieths (a score of 50.0 is 1500).  Floating-point rounding is *)
(*    not modelled.                                                        *)
(***************************************************************************)
EXTENDS Integers, Sequences, FiniteSets, TLC

None == <<>>
Some(x) == <<x>>

Min(a, b) == IF a <= b THEN a ELSE b

\* a sequence given by a rule, as the list of its values
AsList(s) == SubSeq(s, 1, Len(s))

\* ------------------------------------------------------------------ text

IsUpper(c) == c \in 65..90
IsLower(c) == c \in 97..122
IsAlpha(c) == IsUpper(c) \/ IsLower(c)
LowerCh(c) == IF IsUpper(c) THEN c + 32 ELSE c
UpperCh(c) == IF IsLower(c) THEN c - 32 ELSE c
IsSpace(c) == c \in {9, 10, 13, 32}

\* str.lower()
LowerStr(s) == [i \in 1..Len(s) |-> LowerCh(s[i])]

RECURSIVE LStrip(_)
LStrip(s) == IF s # <<>> /\ IsSpace(Head(s)) THEN LStrip(Tail(s)) ELSE s

RECURSIVE RStrip(_)
RStrip(s) ==
    IF s # <<>> /\ IsSpace(s[Len(s)]) THEN RStrip(SubSeq(s, 1, Len(s) - 1)) ELSE s

\* str.strip()
StripStr(s) == RStrip(LStrip(s))

\* title.strip().lower(), the normal form of both sides of the watched index
NormTitle(title) == LowerStr(StripStr(title))

\* slug.replace("-", " ").title()
SlugTitle(slug) ==
    LET r == [i \in 1..Len(slug) |-> IF slug[i] = 45 THEN 32 ELSE slug[i]]
    IN  [i \in 1..Len(r) |->
            IF i = 1 \/ ~IsAlpha(r[i - 1]) THEN UpperCh(r[i]) ELSE LowerCh(r[i])]

\* int(x.get("year")) if x.get("year") else None: a missing or zero year is None
ParseYear(raw) == IF raw = None \/ raw = Some(0) THEN None ELSE raw

\* ------------------------------------------------- program constants, bounds

N == 100                  \* points of one watchlist user
base_n == 100             \* points of a similarity contribution from a 10/10 seed
min_rating_threshold == 8
LikedBackfillBelow == 5   \* liked films are added when fewer rated seeds exist
SeedCap == 6              \* seeds[:6]
RecCap == 12              \* results[:12]
PopularBelow == 20        \* len(candidates) < 20
ResultCap == 100          \* final_results[:100]

MaxRuns == 2              \* calls of generate_recommendations on one engine
Overflow == 1             \* how far the longest watchlist exceeds ResultCap
MaxFetches == 2           \* calls of fetch_data on one engine

\* ------------------------------------------------ the Letterboxd catalogue

Film(slug, name, year) == [slug |-> slug, name |-> name, year |-> year]

FilmA  == Film(<<97>>, <<65>>, Some(2020))             \* "a":   "A" (2020)
FilmB  == Film(<<98>>, <<66>>, Some(2021))             \* "b":   "B" (2021)
FilmC  == Film(<<99>>, <<67>>, None)                   \* "c":   "C", no year
FilmA2 == Film(<<97, 45, 50>>, <<32, 97>>, Some(2020)) \* "a-2": " a" (2020)
FilmG  == Film(<<103>>, <<71>>, Some(2018))            \* "g":   "G" (2018)
FilmHI == Film(<<104, 45, 105>>, <<72, 32, 73>>, Some(2017)) \* "h-i": "H I" (2017)
FilmK  == Film(<<107>>, <<75>>, Some(2016))            \* "k":   "K" (2016)

Digits(i) == <<48 + (i \div 100), 48 + ((i \div 10) % 10), 48 + (i % 10)>>
\* "f001".."f999": "F001" (1901) .. ; none of them is known to TMDB
BulkFilm(i) == Film(<<102>> \o Digits(i), <<70>> \o Digits(i), Some(1900 + i))
\* "p1".."p7": "P1".. (2001..), all rated
ProFilm(i) == Film(<<112, 48 + i>>, <<80, 48 + i>>, Some(2000 + i))

\* a watched film as get_films() reports it: rating in tenths or None, liked flag
Seen(film, rating, liked) ==
    [slug |-> film.slug, name |-> film.name, year |-> film.year,
     rating |-> rating, liked |-> liked]

\* what the Letterboxd client does for one username: User(...) raises with a
\* message, or the watchlist and the films are returned
Raises(msg) == [raises |-> TRUE, msg |-> msg, watchlist |-> <<>>, films |-> <<>>]
Returns(wl, films) == [raises |-> FALSE, msg |-> "", watchlist |-> wl, films |-> films]

Usernames == <<"alice", "bob">>
Users == {Usernames[i] : i \in 1..Len(Usernames)}

AliceSmall ==
    { Raises("user not found"),
      Raises(""),
      Returns(<<FilmA, FilmC>>, <<Seen(FilmG, Some(100), TRUE)>>),
      Returns(<<FilmA2, FilmB>>, <<Seen(FilmHI, None, TRUE), Seen(FilmK, Some(45), TRUE)>>),
      Returns(<<FilmB>>, <<Seen(FilmG, Some(90), FALSE), Seen(FilmK, Some(120), FALSE)>>),
      Returns(<<>>, <<>>) }

BobSmall ==
    { Raises("timed out"),
      Returns(<<FilmA, FilmB>>, <<Seen(FilmA2, Some(85), FALSE)>>),
      Returns(<<FilmB, FilmC>>, <<Seen(FilmG, Some(70), FALSE), Seen(FilmHI, None, TRUE)>>),
      Returns(<<FilmC>>, <<Seen(FilmG, Some(100), FALSE), Seen(FilmC, None, FALSE)>>) }

BulkList(n) == [i \in 1..n |-> BulkFilm(i)]
AliceBulk ==
    { Returns(BulkList(PopularBelow - 1), <<>>),
      Returns(BulkList(PopularBelow), <<>>),
      Returns(BulkList(ResultCap + Overflow), <<Seen(FilmG, Some(100), FALSE)>>) }
BobBulk ==
    { Raises("timed out"),
      Returns(<<BulkFilm(2), FilmB>>, <<Seen(FilmHI, None, TRUE)>>) }

AliceProlific ==
    { Returns(<<FilmC>>,
              [i \in 1..7 |-> Seen(ProFilm(i), Some(IF i = 7 THEN 80 ELSE 100), i = 2)]
                  \o <<Seen(FilmHI, None, TRUE)>>),
      Returns(<<FilmC>>,
              [i \in 1..LikedBackfillBelow |-> Seen(ProFilm(i), Some(100), FALSE)]
                  \o <<Seen(FilmHI, None, TRUE)>>) }
BobProlific == { Raises("timed out") }

\* ------------------------------------------------------- the TMDB database

Movie(id, title, year, vote) ==
    [id |-> id, title |-> title, release_year |-> year, vote_average |-> vote]

\* in the order in which a search lists them
TmdbMovies ==
    << Movie(1, <<97>>, Some(2020), 70),        \* "a"
       Movie(2, <<66>>, Some(2021), 80),        \* "B"
       Movie(5, <<68>>, Some(2019), 60),        \* "D"
       Movie(6, <<69>>, None, 90),              \* "E", no release date
       Movie(7, <<71>>, Some(2018), 75),        \* "G"
       Movie(8, <<104, 32, 105>>, Some(2017), 65), \* "h i"
       Movie(9, <<75>>, Some(2016), 50),        \* "K"
       Movie(11, <<80, 49>>, Some(2001), 55),   \* "P1"
       Movie(17, <<80, 55>>, Some(2007), 85) >> \* "P7"

\* ids above 100 are further titles "R001".. that only recommendations list
MovieById(id) ==
    IF id > 100 THEN Movie(id, <<82>> \o Digits(id - 100), Some(1990), 40)
    ELSE LET i == CHOOSE j \in 1..Len(TmdbMovies) : TmdbMovies[j].id = id
         IN  TmdbMovies[i]

\* ids of /movie/{id}/recommendations, before the cut to 12
RecommendedIds(id) ==
    CASE id = 1 -> <<2>>
      [] id = 2 -> <<1, 5>>
      [] id = 7 -> <<1, 2, 5>>
      [] id = 8 -> <<5, 6>>
      [] id = 9 -> [i \in 1..(RecCap + 1) |-> IF i = 1 THEN 5 ELSE 100 + i]
      [] id = 11 -> <<6>>
      [] id = 17 -> <<5>>
      [] OTHER -> <<>>

PopularIds == <<6, 1, 5>>

\* the "results" of /search/movie for a query, with or without a year
SearchResults(title, year) ==
    LET Hit(m) == /\ NormTitle(m.title) = NormTitle(title)
                  /\ (year = None \/ m.release_year = year)
    IN  SelectSeq(TmdbMovies, Hit)

\* ---------------------------------------------------------- TMDB gateway

tmdb_search_movie_no_key_guard(title, year, api_key, up) ==
    IF ~up THEN None
    ELSE LET first == SearchResults(title, IF year = Some(0) THEN None ELSE year)
             results == IF first = <<>> /\ year # None /\ year # Some(0)
                        THEN SearchResults(title, None) ELSE first
         IN  IF results # <<>> THEN Some(results[1]) ELSE None

\* tmdb_search_movie: None without a key or when the request fails; a search with
\* a year that finds nothing is repeated without the year; the first result
tmdb_search_movie(title, year, api_key, up) ==
    IF api_key = "" THEN None
    ELSE IF ~up THEN None
    ELSE LET first == SearchResults(title, IF year = Some(0) THEN None ELSE year)
             results == IF first = <<>> /\ year # None /\ year # Some(0)
                        THEN SearchResults(title, None) ELSE first
         IN  IF results # <<>> THEN Some(results[1]) ELSE None

\* tmdb_get_recommendations: the first 12 recommendations
tmdb_get_recommendations(movie_id, api_key, up) ==
    IF api_key = "" \/ movie_id = 0 THEN <<>>
    ELSE IF ~up THEN <<>>
    ELSE LET ids == RecommendedIds(movie_id)
         IN  [i \in 1..Min(RecCap, Len(ids)) |-> MovieById(ids[i])]

\* tmdb_get_popular
tmdb_get_popular(api_key, up) ==
    IF api_key = "" THEN <<>>
    ELSE IF ~up THEN <<>>
    ELSE [i \in 1..Len(PopularIds) |-> MovieById(PopularIds[i])]

\* ------------------------------------------------------ fetch_user_data

\* int(float(r)) of a rating given in tenths
IntOfRating(r) == r \div 10

RatingOf(f) ==
    [slug |-> f.slug, score |-> IntOfRating(f.rating[1]), name |-> f.name, year |-> f.year]

HasRating(f) == f.rating # None /\ f.rating[1] # 0 /\ f.rating[1] > 0

\* fetch_user_data: (watchlist, watched, ratings, liked, watched_index, error_msg);
\* error_msg is None, or str(e) of the exception that User(...) raised
fetch_user_data(resp) ==
    IF resp.raises
    THEN [watchlist |-> <<>>, watched |-> {}, ratings |-> <<>>, liked |-> {},
          watched_index |-> {}, err |-> Some(resp.msg)]
    ELSE LET films == resp.films
             at == 1..Len(films)
         IN  [watchlist |-> resp.watchlist,
              watched |-> {films[i].slug : i \in at},
              ratings |-> [i \in 1..Len(SelectSeq(films, HasRating)) |->
                              RatingOf(SelectSeq(films, HasRating)[i])],
              liked |-> {films[i].slug : i \in {j \in at : films[j].liked}},
              watched_index |->
                  {<<NormTitle(films[i].name), ParseYear(films[i].year)>> :
                      i \in {j \in at : NormTitle(films[j].name) # <<>>}},
              err |-> None]

\* Python's truth value of error_msg: None and "" are false
ErrTruthy(err) == err # None /\ err[1] # ""

\* ------------------------------------------------------------ the engine

VARIABLES
    tmdb_api_key,          \* RecommendationEngine.tmdb_api_key ("" when unset)
    gateway_up,            \* whether requests to TMDB succeed
    letterboxd,            \* username -> what the Letterboxd client does for it
    fetches,               \* calls of fetch_data so far, the running one included
    user_data,             \* username -> None (no entry) or the profile
    errors,                \* sequence of [user, msg]
    global_watched_index,  \* set of <<normalised title, year>>
    raised,                \* history: the users whose fetch raised
    use_watchlist, use_similar, use_popular, discovery_weight,
    pc,                    \* where the caller and generate_recommendations are
    idx,                   \* position of the running loop over the users
    run,                   \* calls of generate_recommendations so far
    candidates,            \* the candidates dict, in insertion order
    selected,              \* history: username -> the seeds of selected_seeds
    log,                   \* history: the contributions that found a candidate
    results,               \* what generate_recommendations returned
    prev_results,          \* history: what the call before returned
    sort_option, shown     \* app.py: the chosen order and the list shown

vars == <<tmdb_api_key, gateway_up, letterboxd, fetches, user_data, errors,
          global_watched_index, raised, use_watchlist, use_similar, use_popular,
          discovery_weight, pc, idx, run, candidates, selected, log, results,
          prev_results, sort_option, shown>>

\* user_data.items(): the fetched users in the order of their insertion
InUserData(u) == user_data[u] # None
Profile(u) == user_data[u][1]
UserOrder == SelectSeq(Usernames, InUserData)

\* ---------------------------------------------------------------- fetch_data

ErrorOf(user, err) == [user |-> user, msg |-> err[1]]

\* one turn of the loop of fetch_data
FetchUser ==
    /\ pc = "fetch"
    /\ LET user == Usernames[idx]
           got == fetch_user_data(letterboxd[user])
       IN  /\ raised' = IF letterboxd[user].raises THEN raised \cup {user} ELSE raised
           /\ IF ErrTruthy(got.err)
              THEN /\ errors' = Append(errors, ErrorOf(user, got.err))
                   /\ UNCHANGED <<user_data, global_watched_index>>
              ELSE /\ user_data' = [user_data EXCEPT ![user] =
                                        Some([watchlist |-> got.watchlist,
                                              watched |-> got.watched,
                                              ratings |-> got.ratings,
                                              liked |-> got.liked,
                                              watched_index |-> got.watched_index])]
                   /\ global_watched_index' = global_watched_index \cup got.watched_index
                   /\ UNCHANGED errors
    /\ idx' = idx + 1
    /\ pc' = IF idx = Len(Usernames) THEN "ready" ELSE "fetch"
    /\ UNCHANGED <<tmdb_api_key, gateway_up, letterboxd, fetches, use_watchlist, use_similar,
                   use_popular, discovery_weight, run, candidates, selected, log,
                   results, prev_results, sort_option, shown>>

\* ---------------------------------------------------------------- candidates

is_watched_case_sensitive(title, year) ==
    IF title = <<>> THEN FALSE
    ELSE <<StripStr(title), year>> \in global_watched_index

\* Strict check if a movie is watched by ANY user
is_watched(title, year) ==
    IF title = <<>> THEN FALSE
    ELSE <<NormTitle(title), year>> \in global_watched_index

SlugKey(slug) == [kind |-> "slug", slug |-> slug, id |-> 0]
TmdbKey(id) == [kind |-> "tmdb", slug |-> <<>>, id |-> id]

LetterboxdUrl(slug) == [site |-> "letterboxd", slug |-> slug, id |-> 0]
TmdbUrl(id) == [site |-> "themoviedb", slug |-> <<>>, id |-> id]
NoUrl == [site |-> "", slug |-> <<>>, id |-> 0]

HasKey(cands, key) == \E i \in 1..Len(cands) : cands[i].key = key
IndexOfKey(cands, key) == CHOOSE i \in 1..Len(cands) : cands[i].key = key

\* the dict a new candidate starts as; details_obj, when given, overrides name and year
NewCandidate(unique_id, title, year, url, details_obj, tmdb_obj) ==
    [key |-> unique_id,
     name |-> IF details_obj # None THEN details_obj[1].name ELSE title,
     year |-> IF details_obj # None THEN details_obj[1].year ELSE year,
     url |-> url,
     watchlist_users |-> {},
     similar_contributions |-> [u \in Users |-> <<>>],
     sources |-> {},
     tmdb |-> tmdb_obj]

get_or_create_last_writer(cands, unique_id, title, year, url, details_obj, tmdb_obj) ==
    IF is_watched(title, year) THEN cands
    ELSE IF HasKey(cands, unique_id)
    THEN LET new == NewCandidate(unique_id, title, year, url, details_obj, tmdb_obj)
         IN  [cands EXCEPT ![IndexOfKey(cands, unique_id)].name = new.name,
                           ![IndexOfKey(cands, unique_id)].year = new.year,
                           ![IndexOfKey(cands, unique_id)].url = new.url]
    ELSE Append(cands, NewCandidate(unique_id, title, year, url, details_obj, tmdb_obj))

get_or_create_always_new(cands, unique_id, title, year, url, details_obj, tmdb_obj) ==
    IF is_watched(title, year) THEN cands
    ELSE Append(cands, NewCandidate(unique_id, title, year, url, details_obj, tmdb_obj))

\* get_or_create: the candidates after the call
get_or_create(cands, unique_id, title, year, url, details_obj, tmdb_obj) ==
    IF is_watched(title, year) THEN cands
    ELSE IF HasKey(cands, unique_id) THEN cands
    ELSE Append(cands, NewCandidate(unique_id, title, year, url, details_obj, tmdb_obj))

\* whether get_or_create returned a candidate (not None)
Returned(title, year) == ~is_watched(title, year)

Contribution(key, tag, user, points) ==
    [key |-> key, tag |-> tag, user |-> user, points |-> points]

\* the working state of a pass: the candidates and the history of contributions
Work(cands, lg) == [cands |-> cands, log |-> lg]

\* --- 1. POPULATE CANDIDATES FROM WATCHLISTS: one entry of one user's watchlist
WatchlistEntry(w, user, details) ==
    LET title == details.name
        year == ParseYear(details.year)
        tmdb_obj == tmdb_search_movie(title, year, tmdb_api_key, gateway_up)
        key == IF tmdb_obj # None THEN TmdbKey(tmdb_obj[1].id) ELSE SlugKey(details.slug)
        cs == get_or_create(w.cands, key, title, year, LetterboxdUrl(details.slug),
                            Some(details), tmdb_obj)
    IN  IF ~Returned(title, year) THEN w
        ELSE LET i == IndexOfKey(cs, key)
             IN  Work([cs EXCEPT ![i].watchlist_users = @ \cup {user},
                                 ![i].sources = @ \cup {"Watchlist"}],
                      Append(w.log, Contribution(key, "Watchlist", user, 0)))

\* the (user, entry) pairs of the two nested loops, flattened in their order
RECURSIVE WatchlistItems(_)
WatchlistItems(users) ==
    IF users = <<>> THEN <<>>
    ELSE LET u == Head(users)
             wl == Profile(u).watchlist
         IN  [i \in 1..Len(wl) |-> [user |-> u, details |-> wl[i]]]
             \o WatchlistItems(Tail(users))

\* the loop over items[lo..hi]; it is split in halves, and the first half is
\* compared with w so that it is computed before the second half starts (this
\* keeps the evaluation shallow; both branches give the same value)
RECURSIVE WatchlistRange(_, _, _, _)
WatchlistRange(w, items, lo, hi) ==
    IF lo > hi THEN w
    ELSE IF lo = hi THEN WatchlistEntry(w, items[lo].user, items[lo].details)
    ELSE LET mid == (lo + hi) \div 2
             half == WatchlistRange(w, items, lo, mid)
         IN  IF half = w THEN WatchlistRange(w, items, mid + 1, hi)
             ELSE WatchlistRange(half, items, mid + 1, hi)

WatchlistFold(w0, items) == WatchlistRange(w0, items, 1, Len(items))

\* --- 2. POPULATE CANDIDATES FROM SIMILAR

Seed(slug, score, name) == [slug |-> slug, score |-> score, name |-> name]

IsSeedRating(r) == r.score >= min_rating_threshold

\* the seeds list of one user before the shuffle, as a set
RatedSeeds(data) ==
    {Seed(data.ratings[i].slug, data.ratings[i].score, data.ratings[i].name) :
        i \in {j \in 1..Len(data.ratings) : IsSeedRating(data.ratings[j])}}

RatedSlugs(data) == {data.ratings[i].slug : i \in 1..Len(data.ratings)}

LikedSeeds(data) ==
    {Seed(slug, 10, SlugTitle(slug)) : slug \in data.liked \ RatedSlugs(data)}

SeedsOf_backfill_at_five(data) ==
    IF Cardinality(RatedSeeds(data)) <= LikedBackfillBelow
    THEN RatedSeeds(data) \cup LikedSeeds(data)
    ELSE RatedSeeds(data)

SeedsOf(data) ==
    IF Cardinality(RatedSeeds(data)) < LikedBackfillBelow
    THEN RatedSeeds(data) \cup LikedSeeds(data)
    ELSE RatedSeeds(data)

\* every order random.shuffle can leave the seeds in
RECURSIVE Shuffles(_)
Shuffles(S) ==
    IF S = {} THEN {<<>>}
    ELSE UNION {{<<x>> \o p : p \in Shuffles(S \ {x})} : x \in S}

SelectedSeeds_first_only(shuffled) == SubSeq(shuffled, 1, Min(1, Len(shuffled)))

\* seeds[:6]
SelectedSeeds(shuffled) == SubSeq(shuffled, 1, Min(SeedCap, Len(shuffled)))

PointsOf_half_below_ten(seed_score) ==
    IF seed_score = 10 THEN 3 * base_n ELSE (3 * base_n) \div 2

\* 10 -> N, 9 -> N/2, 8 -> N/3, else N/4, in thirds of a point
PointsOf(seed_score) ==
    IF seed_score = 10 THEN 3 * base_n
    ELSE IF seed_score = 9 THEN (3 * base_n) \div 2
    ELSE IF seed_score = 8 THEN base_n
    ELSE (3 * base_n) \div 4

ContributionOf(seed, tmdb_seed) ==
    [points |-> PointsOf(seed.score), from_movie |-> tmdb_seed.title,
     from_score |-> seed.score]

\* similar_contributions maps every user to a list; the empty list is "no entry"
AddContribution(contribs, user, c) == [contribs EXCEPT ![user] = Append(@, c)]

\* one recommended record of one seed
SimilarRec(w, user, seed, tmdb_seed, rec) ==
    LET rid == TmdbKey(rec.id)
        check_title == rec.title
        check_year == rec.release_year
        cs == get_or_create(w.cands, rid, check_title, check_year, TmdbUrl(rec.id),
                            None, Some(rec))
    IN  IF ~Returned(check_title, check_year) THEN w
        ELSE LET i == IndexOfKey(cs, rid)
                 c == ContributionOf(seed, tmdb_seed)
             IN  Work([cs EXCEPT ![i].sources = @ \cup {"Similar"},
                                 ![i].similar_contributions = AddContribution(@, user, c)],
                      Append(w.log, Contribution(rid, "Similar", user, c.points)))

SeedTitle(seed) == IF seed.name # <<>> THEN seed.name ELSE SlugTitle(seed.slug)

\* one selected seed: resolve it, fetch its recommendations, add each
SimilarSeed(w, user, seed) ==
    LET tmdb_seed == tmdb_search_movie(SeedTitle(seed), None, tmdb_api_key, gateway_up)
    IN  IF tmdb_seed = None THEN w
        ELSE LET recs == tmdb_get_recommendations(tmdb_seed[1].id, tmdb_api_key, gateway_up)
                 F[i \in 0..Len(recs)] ==
                     IF i = 0 THEN w
                     ELSE SimilarRec(F[i - 1], user, seed, tmdb_seed[1], recs[i])
             IN  F[Len(recs)]

SimilarFold(w0, user, seeds) ==
    LET F[i \in 0..Len(seeds)] ==
            IF i = 0 THEN w0 ELSE SimilarSeed(F[i - 1], user, seeds[i])
    IN  F[Len(seeds)]

\* --- 3. POPULAR FALLBACK

PopularGuard_inverted(count) == use_popular /\ tmdb_api_key # "" /\ count >= PopularBelow

PopularGuard_inclusive(count) == use_popular /\ tmdb_api_key # "" /\ count <= PopularBelow

PopularGuard(count) == use_popular /\ tmdb_api_key # "" /\ count < PopularBelow

PopularEntry(w, p) ==
    LET rid == TmdbKey(p.id)
        cs == get_or_create(w.cands, rid, p.title, p.release_year, NoUrl, None, Some(p))
    IN  IF ~Returned(p.title, p.release_year) THEN w
        ELSE LET i == IndexOfKey(cs, rid)
             IN  Work([cs EXCEPT ![i].sources = @ \cup {"Popular"}],
                      Append(w.log, Contribution(rid, "Popular", "", 0)))

PopularFold(w0, pops) ==
    LET F[i \in 0..Len(pops)] ==
            IF i = 0 THEN w0 ELSE PopularEntry(F[i - 1], pops[i])
    IN  F[Len(pops)]

\* --- 4. ENRICHMENT: a candidate without TMDB data is searched by title and year
EnrichOne(cand) ==
    IF cand.tmdb # None \/ cand.name = <<>> THEN cand
    ELSE LET found == tmdb_search_movie(cand.name, cand.year, tmdb_api_key, gateway_up)
         IN  IF found # None THEN [cand EXCEPT !.tmdb = found] ELSE cand

Enriched(cands) == [i \in 1..Len(cands) |-> EnrichOne(cands[i])]

\* --- CALCULATION

RECURSIVE SumPoints(_)
SumPoints(contribs) ==
    IF contribs = <<>> THEN 0 ELSE Head(contribs).points + SumPoints(Tail(contribs))

RECURSIVE SumOver(_, _)
SumOver(f, S) ==
    IF S = {} THEN 0
    ELSE LET x == CHOOSE y \in S : TRUE IN f[x] + SumOver(f, S \ {x})

UserSum_averaged(contribs) ==
    IF contribs = <<>> THEN 0 ELSE SumPoints(contribs) \div Len(contribs)

\* user_sum of one user's contributions
UserSum(contribs) == SumPoints(contribs)

\* sim_score_total, in thirds of a point
SimScoreTotal(cand) ==
    SumOver([u \in Users |-> UserSum(cand.similar_contributions[u])], Users)

WeightedSim_inverted(sim_score_total, weight) == sim_score_total * (10 - weight)

\* sim_score_total * discovery_weight, in thirtieths
WeightedSim(sim_score_total, weight) == sim_score_total * weight

\* wl_count * N, in thirtieths
WatchlistScore(cand) == Cardinality(cand.watchlist_users) * N * 30

ScoreOf(cand, weight) == WatchlistScore(cand) + WeightedSim(SimScoreTotal(cand), weight)

ResultOf(cand, weight) ==
    [id |-> cand.key, title |-> cand.name, year |-> cand.year, url |-> cand.url,
     score |-> ScoreOf(cand, weight), sources |-> cand.sources, raw_tmdb |-> cand.tmdb]

\* a < b for two str
RECURSIVE LexLess(_, _)
LexLess(a, b) ==
    IF b = <<>> THEN FALSE
    ELSE IF a = <<>> THEN TRUE
    ELSE IF Head(a) # Head(b) THEN Head(a) < Head(b)
    ELSE LexLess(Tail(a), Tail(b))

\* a < b for two sort keys: two str (as_text) or two numbers
KeyLess(a, b, as_text) == IF as_text THEN LexLess(a, b) ELSE a < b

SortedDesc_ties_reversed(keys, as_text) ==
    LET n == Len(keys)
        ks == AsList(keys)
        pos == AsList([i \in 1..n |->
                   1 + Cardinality({j \in 1..n : KeyLess(ks[i], ks[j], as_text)})
                     + Cardinality({j \in (i + 1)..n : ks[j] = ks[i]})])
    IN  AsList([q \in 1..n |-> CHOOSE i \in 1..n : pos[i] = q])

\* list.sort(key=..., reverse=True): the stable order, largest key first, of the
\* positions of keys
SortedDesc(keys, as_text) ==
    LET n == Len(keys)
        ks == AsList(keys)
        pos == AsList([i \in 1..n |->
                   1 + Cardinality({j \in 1..n : KeyLess(ks[i], ks[j], as_text)})
                     + Cardinality({j \in 1..(i - 1) : ks[j] = ks[i]})])
    IN  AsList([q \in 1..n |-> CHOOSE i \in 1..n : pos[i] = q])

\* every candidate scored, sorted by score
FinalResults(cands, weight) ==
    LET scored == AsList([i \in 1..Len(cands) |-> ResultOf(cands[i], weight)])
        order == SortedDesc([i \in 1..Len(scored) |-> scored[i].score], FALSE)
    IN  AsList([q \in 1..Len(scored) |-> scored[order[q]]])

Truncated_one_more(final_results) ==
    SubSeq(final_results, 1, Min(ResultCap + 1, Len(final_results)))

\* final_results[:100]
Truncated(final_results) == SubSeq(final_results, 1, Min(ResultCap, Len(final_results)))

\* ------------------------------------------------------- app.py: Sorting

RECURSIVE DecStr(_)
DecStr(n) == IF n < 10 THEN <<48 + n>> ELSE Append(DecStr(n \div 10), 48 + (n % 10))

\* str(x.get("year", "0")): the key "year" is always there, None prints as "None"
YearStr(year) == IF year = None THEN <<78, 111, 110, 101>> ELSE DecStr(year[1])

\* (x.get("raw_tmdb") or {}).get("vote_average", 0)
VoteOf(r) == IF r.raw_tmdb = None THEN 0 ELSE r.raw_tmdb[1].vote_average

SortOptions == {"Smart Match", "TMDB Rating", "Release Year"}

\* recs after the "Sorting" block
Sorted(recs, option) ==
    LET order ==
            IF option = "TMDB Rating"
            THEN SortedDesc([i \in 1..Len(recs) |-> VoteOf(recs[i])], FALSE)
            ELSE IF option = "Release Year"
            THEN SortedDesc([i \in 1..Len(recs) |-> YearStr(recs[i].year)], TRUE)
            ELSE [i \in 1..Len(recs) |-> i]
    IN  AsList([q \in 1..Len(recs) |-> recs[order[q]]])

\* ------------------------------------------------- generate_recommendations

NoneSelected == [u \in Users |-> {}]

\* the call, up to the guard "if not self.user_data: return []"
Call ==
    /\ pc \in {"ready", "done"}
    /\ run < MaxRuns
    /\ run' = run + 1
    /\ prev_results' = IF pc = "done" THEN Some(results) ELSE None
    /\ candidates' = <<>>
    /\ log' = <<>>
    /\ selected' = NoneSelected
    /\ idx' = 1
    /\ IF UserOrder = <<>>
       THEN /\ results' = <<>>
            /\ pc' = "done"
       ELSE /\ results' = <<>>
            /\ pc' = "watchlist"
    /\ UNCHANGED <<tmdb_api_key, gateway_up, letterboxd, fetches, user_data, errors,
                   global_watched_index, raised, use_watchlist, use_similar,
                   use_popular, discovery_weight, sort_option, shown>>

WatchlistPass ==
    /\ pc = "watchlist"
    /\ LET w == IF use_watchlist
                THEN WatchlistFold(Work(candidates, log), WatchlistItems(UserOrder))
                ELSE Work(candidates, log)
       IN  /\ candidates' = w.cands
           /\ log' = w.log
    /\ pc' = "similar"
    /\ idx' = 1
    /\ UNCHANGED <<tmdb_api_key, gateway_up, letterboxd, fetches, user_data, errors,
                   global_watched_index, raised, use_watchlist, use_similar,
                   use_popular, discovery_weight, run, selected, results,
                   prev_results, sort_option, shown>>

SimilarGuard == use_similar /\ tmdb_api_key # ""

\* the similar pass is off: "if use_similar and self.tmdb_api_key" is false
SimilarSkip ==
    /\ pc = "similar"
    /\ ~SimilarGuard
    /\ pc' = "popular"
    /\ UNCHANGED <<tmdb_api_key, gateway_up, letterboxd, fetches, user_data, errors,
                   global_watched_index, raised, use_watchlist, use_similar,
                   use_popular, discovery_weight, idx, run, candidates, selected,
                   log, results, prev_results, sort_option, shown>>

\* one user's turn of the similar pass: build the seeds, shuffle, cut, expand
SimilarUser ==
    /\ pc = "similar"
    /\ SimilarGuard
    /\ LET user == UserOrder[idx]
       IN  \E shuffled \in Shuffles(SeedsOf(Profile(user))) :
               LET selected_seeds == SelectedSeeds(shuffled)
                   w == SimilarFold(Work(candidates, log), user, selected_seeds)
               IN  /\ candidates' = w.cands
                   /\ log' = w.log
                   /\ selected' = [selected EXCEPT ![user] =
                          {selected_seeds[i] : i \in 1..Len(selected_seeds)}]
    /\ idx' = idx + 1
    /\ pc' = IF idx = Len(UserOrder) THEN "popular" ELSE "similar"
    /\ UNCHANGED <<tmdb_api_key, gateway_up, letterboxd, fetches, user_data, errors,
                   global_watched_index, raised, use_watchlist, use_similar,
                   use_popular, discovery_weight, run, results, prev_results,
                   sort_option, shown>>

PopularPass ==
    /\ pc = "popular"
    /\ LET w == IF PopularGuard(Len(candidates))
                THEN PopularFold(Work(candidates, log),
                                 tmdb_get_popular(tmdb_api_key, gateway_up))
                ELSE Work(candidates, log)
       IN  /\ candidates' = w.cands
           /\ log' = w.log
    /\ pc' = "enrich"
    /\ UNCHANGED <<tmdb_api_key, gateway_up, letterboxd, fetches, user_data, errors,
                   global_watched_index, raised, use_watchlist, use_similar,
                   use_popular, discovery_weight, idx, run, selected, results,
                   prev_results, sort_option, shown>>

Enrichment ==
    /\ pc = "enrich"
    /\ candidates' = IF tmdb_api_key # "" THEN Enriched(candidates) ELSE candidates
    /\ pc' = "calc"
    /\ UNCHANGED <<tmdb_api_key, gateway_up, letterboxd, fetches, user_data, errors,
                   global_watched_index, raised, use_watchlist, use_similar,
                   use_popular, discovery_weight, idx, run, selected, log, results,
                   prev_results, sort_option, shown>>

\* the scoring loop, the sort and the return
Calculation ==
    /\ pc = "calc"
    /\ results' = Truncated(FinalResults(candidates, discovery_weight))
    /\ pc' = "done"
    /\ UNCHANGED <<tmdb_api_key, gateway_up, letterboxd, fetches, user_data, errors,
                   global_watched_index, raised, use_watchlist, use_similar,
                   use_popular, discovery_weight, idx, run, candidates, selected,
                   log, prev_results, sort_option, shown>>

\* app.py sorts the returned list by the chosen option and shows it
Present ==
    /\ pc = "done"
    /\ \E option \in SortOptions :
           /\ sort_option' = option
           /\ shown' = Sorted(results, option)
    /\ pc' = "shown"
    /\ UNCHANGED <<tmdb_api_key, gateway_up, letterboxd, fetches, user_data, errors,
                   global_watched_index, raised, use_watchlist, use_similar,
                   use_popular, discovery_weight, idx, run, candidates, selected,
                   log, results, prev_results>>

\* ------------------------------------------------------------ specification

Toggles == {<<w, s, p>> : w \in BOOLEAN, s \in BOOLEAN, p \in BOOLEAN}

\* the key and the state of TMDB: without a key TMDB is never asked
Gateways == {<<"", TRUE>>, <<"key", TRUE>>, <<"key", FALSE>>}

Weights == {0, 5, 10}

Start(toggles, gateway, weight, services) ==
    /\ use_watchlist = toggles[1]
    /\ use_similar = toggles[2]
    /\ use_popular = toggles[3]
    /\ tmdb_api_key = gateway[1]
    /\ gateway_up = gateway[2]
    /\ discovery_weight = weight
    /\ letterboxd = [u \in Users |-> IF u = "alice" THEN services[1] ELSE services[2]]
    /\ fetches = 1
    /\ user_data = [u \in Users |-> None]
    /\ errors = <<>>
    /\ global_watched_index = {}
    /\ raised = {}
    /\ pc = "fetch"
    /\ idx = 1
    /\ run = 0
    /\ candidates = <<>>
    /\ selected = NoneSelected
    /\ log = <<>>
    /\ results = <<>>
    /\ prev_results = None
    /\ sort_option = ""
    /\ shown = <<>>

\* small groups under every setting; long watchlists and a prolific rater under
\* the settings that matter to them
Init ==
    \E t \in Toggles, g \in Gateways, w \in Weights,
       s \in (AliceSmall \X BobSmall) \cup (AliceBulk \X BobBulk)
             \cup (AliceProlific \X BobProlific) :
        /\ (s \in AliceBulk \X BobBulk => w = 5)
        /\ (s \in AliceProlific \X BobProlific =>
                w = 5 /\ t = <<TRUE, TRUE, FALSE>> /\ g = <<"key", TRUE>>)
        /\ Start(t, g, w, s)

Next ==
    \/ FetchUser
    \/ Call
    \/ WatchlistPass
    \/ SimilarSkip
    \/ SimilarUser
    \/ PopularPass
    \/ Enrichment
    \/ Calculation
    \/ Present

Spec == Init /\ [][Next]_vars

\* ------------------------------------------- fetch_data called again

\* fetch_data is called once more on the same engine, after Letterboxd has
\* changed: the loop starts over; user_data, errors and global_watched_index
\* are what the calls before left
Refetch ==
    /\ pc = "ready"
    /\ fetches < MaxFetches
    /\ fetches' = fetches + 1
    /\ \E s \in AliceSmall \X BobSmall :
           letterboxd' = [u \in Users |-> IF u = "alice" THEN s[1] ELSE s[2]]
    /\ raised' = {}
    /\ idx' = 1
    /\ pc' = "fetch"
    /\ UNCHANGED <<tmdb_api_key, gateway_up, user_data, errors, global_watched_index,
                   use_watchlist, use_similar, use_popular, discovery_weight, run,
                   candidates, selected, log, results, prev_results, sort_option,
                   shown>>

\* a fresh engine of a small group; the settings of generate_recommendations
\* play no part in fetch_data
InitRefetch ==
    \E s \in AliceSmall \X BobSmall :
        Start(<<TRUE, TRUE, FALSE>>, <<"key", TRUE>>, 5, s)

NextRefetch ==
    \/ FetchUser
    \/ Refetch

SpecRefetch == InitRefetch /\ [][NextRefetch]_vars

\* ------------------------------------------- TMDB going down and coming back

\* between two passes TMDB stops answering, or answers again: the requests of the
\* gateway functions raise, or no longer do
GatewayChanges ==
    /\ tmdb_api_key # ""
    /\ pc \in {"similar", "popular", "enrich"}
    /\ gateway_up' = ~gateway_up
    /\ UNCHANGED <<tmdb_api_key, letterboxd, fetches, user_data, errors,
                   global_watched_index, raised, use_watchlist, use_similar,
                   use_popular, discovery_weight, pc, idx, run, candidates, selected,
                   log, results, prev_results, sort_option, shown>>

\* small groups with a key, TMDB up or down at first
InitOutage ==
    \E t \in Toggles, up \in BOOLEAN, s \in AliceSmall \X BobSmall :
        Start(t, <<"key", up>>, 5, s)

NextOutage ==
    \/ Next
    \/ GatewayChanges

SpecOutage == InitOutage /\ [][NextOutage]_vars

\* ------------------------------------------------------------------ claims

Fetched == {u \in Users : InUserData(u)}

\* the watched pairs of every fetched user
GroupWatched == UNION {Profile(u).watched_index : u \in Fetched}

PairOf(title, year) == <<NormTitle(title), ParseYear(year)>>

Finished == pc \in {"done", "shown"}

\* C1: group-wide exclusion.  No candidate a pass has created, and no returned
\* result, has a (title stripped and lower-cased, year) pair that is in the watched
\* index of any fetched user, whoever's watchlist or seed it came from.
C1_GroupWideExclusion ==
    /\ \A i \in 1..Len(candidates) :
           PairOf(candidates[i].name, candidates[i].year) \notin GroupWatched
    /\ \A i \in 1..Len(results) :
           PairOf(results[i].title, results[i].year) \notin GroupWatched

\* a member's watchlist holds a film another member has watched, the watchlist
\* pass has run on it and the run has returned results
C1_Witness ==
    /\ pc = "done"
    /\ use_watchlist
    /\ results # <<>>
    /\ \E u \in Fetched, v \in Fetched :
           /\ u # v
           /\ \E i \in 1..Len(Profile(u).watchlist) :
                  /\ PairOf(Profile(u).watchlist[i].name, Profile(u).watchlist[i].year)
                         \in Profile(v).watched_index
                  /\ Profile(u).watchlist[i].name # NormTitle(Profile(u).watchlist[i].name)

KeysOf(lg) == {lg[i].key : i \in 1..Len(lg)}
TagsFor(lg, key) == {lg[i].tag : i \in {j \in 1..Len(lg) : lg[j].key = key}}

\* C2: deduplication.  All contributions that resolved to one id (an external id
\* or a slug) ended in exactly one candidate under that id, and its sources are
\* the union of the tags of those contributions.
C2_Deduplication ==
    \A key \in KeysOf(log) :
        /\ Cardinality({i \in 1..Len(candidates) : candidates[i].key = key}) = 1
        /\ \A i \in 1..Len(candidates) :
               candidates[i].key = key => candidates[i].sources = TagsFor(log, key)

\* an external id that took contributions of two passes and of two users
C2_Witness ==
    /\ pc = "done"
    /\ \E key \in KeysOf(log) :
           /\ key.kind = "tmdb"
           /\ {"Watchlist", "Similar"} \subseteq TagsFor(log, key)
           /\ Cardinality(Users \cap
                  {log[i].user : i \in {j \in 1..Len(log) : log[j].key = key}}) > 1

\* the ids returned with their scores
IdScores(rs) == {<<rs[i].id, rs[i].score>> : i \in 1..Len(rs)}

Returned2 == pc = "done" /\ prev_results # None

\* C3 as claimed: two runs over the same profiles, options and gateway answers
\* return the same ids with the same scores, whatever the number of seeds.
C3_Idempotence == Returned2 => IdScores(prev_results[1]) = IdScores(results)

AtMostCapSeeds == \A u \in Fetched : Cardinality(SeedsOf(Profile(u))) <= SeedCap

\* C3 as amended: the two runs agree when no user has more than 6 admitted seeds
\* and no more than 100 candidates exist (so that neither the cut of the shuffled
\* seeds nor the cut of the sorted results drops anything).
C3_IdempotenceUpToCap ==
    (Returned2 /\ AtMostCapSeeds /\ Len(candidates) <= ResultCap)
        => IdScores(prev_results[1]) = IdScores(results)

\* a second run has returned for a user whose several seeds were shuffled
C3_Witness ==
    /\ Returned2
    /\ AtMostCapSeeds
    /\ Len(candidates) <= ResultCap
    /\ \E u \in Fetched : Cardinality(selected[u]) > 1
    /\ \E i \in 1..Len(results) : "Similar" \in results[i].sources

RECURSIVE SumSet(_, _)
SumSet(f, S) ==
    IF S = {} THEN 0 ELSE LET x == CHOOSE y \in S : TRUE IN f[x] + SumSet(f, S \ {x})

LogAt(key, tag) == {j \in 1..Len(log) : log[j].key = key /\ log[j].tag = tag}

WatchlistUsersOf(key) == {log[j].user : j \in LogAt(key, "Watchlist")}
SimilarPointsOf(key) == SumSet([j \in LogAt(key, "Similar") |-> log[j].points],
                               LogAt(key, "Similar"))

\* C4: score formula.  A result's score is 100 for each distinct user whose
\* watchlist contributed to it plus discovery_weight times the plain sum of the
\* points of every similarity contribution to it (scores in thirtieths, points in
\* thirds, weight in tenths).
C4_ScoreFormula ==
    pc = "done" =>
        \A i \in 1..Len(results) :
            results[i].score =
                30 * 100 * Cardinality(WatchlistUsersOf(results[i].id))
                + discovery_weight * SimilarPointsOf(results[i].id)

\* at weight 0.5: a result with one 100-point contribution and no watchlist user
\* scores 50, next to a result on two watchlists and one that one user reached
\* from two seeds
C4_Witness ==
    /\ pc = "done"
    /\ discovery_weight = 5
    /\ \E i \in 1..Len(results) :
           /\ WatchlistUsersOf(results[i].id) = {}
           /\ Cardinality(LogAt(results[i].id, "Similar")) = 1
           /\ SimilarPointsOf(results[i].id) = 300
           /\ results[i].score = 1500
    /\ \E i \in 1..Len(results) : Cardinality(WatchlistUsersOf(results[i].id)) = 2
    /\ \E i \in 1..Len(results), u \in Users :
           Cardinality({j \in LogAt(results[i].id, "Similar") : log[j].user = u}) > 1

HasContribution(cand) == \E u \in Users : cand.similar_contributions[u] # <<>>

\* C5: discovery weight.  At weight 0 a result's score is its watchlist component
\* alone; and for every candidate the score at weight 1 is not below the score at
\* weight 0, and is above it when the candidate has a similarity contribution.
C5_DiscoveryWeight ==
    pc = "done" =>
        /\ discovery_weight = 0 =>
               \A i \in 1..Len(results) :
                   results[i].score =
                       30 * 100 * Cardinality(WatchlistUsersOf(results[i].id))
        /\ \A i \in 1..Len(candidates) :
               /\ ScoreOf(candidates[i], 10) >= ScoreOf(candidates[i], 0)
               /\ HasContribution(candidates[i]) =>
                      ScoreOf(candidates[i], 10) > ScoreOf(candidates[i], 0)

\* at weight 0 a result that is on a watchlist and has similarity contributions
C5_Witness ==
    /\ pc = "done"
    /\ discovery_weight = 0
    /\ \E i \in 1..Len(results) :
           /\ WatchlistUsersOf(results[i].id) # {}
           /\ SimilarPointsOf(results[i].id) > 0
    /\ \E i \in 1..Len(results) :
           /\ WatchlistUsersOf(results[i].id) = {}
           /\ SimilarPointsOf(results[i].id) > 0

OnWatchlist(u, slug) ==
    \E i \in 1..Len(Profile(u).watchlist) : Profile(u).watchlist[i].slug = slug

UnwatchedEntry(u, slug) ==
    \E i \in 1..Len(Profile(u).watchlist) :
        /\ Profile(u).watchlist[i].slug = slug
        /\ PairOf(Profile(u).watchlist[i].name, Profile(u).watchlist[i].year)
               \notin GroupWatched

\* C6: without a metadata key every result is keyed by the slug of a watchlist
\* entry the group has not watched, has the sources {Watchlist}, no TMDB record,
\* and scores 100 for each fetched user whose watchlist holds that slug.
C6_NoKey ==
    (pc = "done" /\ tmdb_api_key = "") =>
        \A i \in 1..Len(results) :
            /\ results[i].id.kind = "slug"
            /\ \E u \in Fetched : UnwatchedEntry(u, results[i].id.slug)
            /\ results[i].sources = {"Watchlist"}
            /\ results[i].raw_tmdb = None
            /\ results[i].score =
                   30 * 100 * Cardinality({u \in Fetched : OnWatchlist(u, results[i].id.slug)})

\* no key, every source switched on, seeds present: a slug on two watchlists
C6_Witness ==
    /\ pc = "done"
    /\ tmdb_api_key = ""
    /\ use_watchlist /\ use_similar /\ use_popular
    /\ \E u \in Fetched : SeedsOf(Profile(u)) # {}
    /\ \E i \in 1..Len(results) : results[i].score = 6000
    /\ \E u \in Fetched : \E i \in 1..Len(Profile(u).watchlist) :
           ~UnwatchedEntry(u, Profile(u).watchlist[i].slug)

ErrorsFor(u) == {i \in 1..Len(errors) : errors[i].user = u}

\* C7: per-user failure isolation.  Once fetch_data has run, a user whose fetch
\* succeeded has a profile and no error, and a user whose fetch failed has no
\* profile (so nothing of theirs reaches a pass) and exactly one error carrying
\* the username and the message; the other users are stored all the same.
C7_FailureIsolation ==
    pc # "fetch" =>
        \A u \in Users :
            /\ u \notin raised => (InUserData(u) /\ ErrorsFor(u) = {})
            /\ u \in raised =>
                   /\ ~InUserData(u)
                   /\ Cardinality(ErrorsFor(u)) = 1
                   /\ \A i \in ErrorsFor(u) : errors[i].msg = letterboxd[u].msg

Unwatched(title, year) == PairOf(title, year) \notin GroupWatched

WatchlistYields ==
    /\ use_watchlist
    /\ \E u \in Fetched : \E i \in 1..Len(Profile(u).watchlist) :
           Unwatched(Profile(u).watchlist[i].name, Profile(u).watchlist[i].year)

SeedYields(seed) ==
    LET found == SearchResults(SeedTitle(seed), None)
    IN  /\ found # <<>>
        /\ \E k \in 1..Min(RecCap, Len(RecommendedIds(found[1].id))) :
               LET rec == MovieById(RecommendedIds(found[1].id)[k])
               IN  Unwatched(rec.title, rec.release_year)

SimilarYields ==
    /\ use_similar /\ tmdb_api_key # "" /\ gateway_up
    /\ \E u \in Fetched : \E seed \in selected[u] : SeedYields(seed)

PopularYields ==
    /\ use_popular /\ tmdb_api_key # "" /\ gateway_up
    /\ \E k \in 1..Len(PopularIds) :
           Unwatched(MovieById(PopularIds[k]).title, MovieById(PopularIds[k]).release_year)

SomeSourceYields == WatchlistYields \/ SimilarYields \/ PopularYields

ModeLess(option, a, b) ==
    IF option = "TMDB Rating" THEN VoteOf(a) < VoteOf(b)
    ELSE IF option = "Release Year" THEN LexLess(YearStr(a.year), YearStr(b.year))
    ELSE a.score < b.score

ShownIds == {shown[i].id : i \in 1..Len(shown)}

OrderedByMode ==
    \A i \in 1..Len(shown) : \A j \in (i + 1)..Len(shown) :
        ~ModeLess(sort_option, shown[i], shown[j])

\* the candidates that are not shown, as results
LeftOut ==
    {ResultOf(candidates[i], discovery_weight) :
        i \in {j \in 1..Len(candidates) : candidates[j].key \notin ShownIds}}

\* C9 as claimed: in each sort mode the list shown has at most 100 entries, is in
\* the order of the mode's key, and is the top of the full candidate set under
\* that key: no candidate left out has a larger key than an entry shown.
C9_TopUnderMode ==
    pc = "shown" =>
        /\ Len(shown) <= ResultCap
        /\ OrderedByMode
        /\ \A c \in LeftOut : \A i \in 1..Len(shown) :
               ~ModeLess(sort_option, shown[i], c)

\* C9 as amended: the list shown has at most 100 entries, is in the order of the
\* mode's key, and holds the top of the full candidate set under the score (the
\* entries generate_recommendations returned): no candidate left out has a larger
\* score than an entry shown, and nothing is left out while fewer than 100 are shown.
C9_TopByScoreInModeOrder ==
    pc = "shown" =>
        /\ Len(shown) <= ResultCap
        /\ Len(shown) = Min(ResultCap, Len(candidates))
        /\ OrderedByMode
        /\ ShownIds = {results[i].id : i \in 1..Len(results)}
        /\ \A c \in LeftOut : \A i \in 1..Len(shown) : ~(shown[i].score < c.score)

\* more than 100 candidates, shown by release year, where the mode changed the order
C9_Witness ==
    /\ pc = "shown"
    /\ sort_option = "Release Year"
    /\ Len(candidates) > ResultCap
    /\ shown # results

TagsIn(cands) == UNION {cands[i].sources : i \in 1..Len(cands)}

PassTag(p) ==
    IF p = "watchlist" THEN {"Watchlist"}
    ELSE IF p = "similar" THEN {"Similar"}
    ELSE IF p = "popular" THEN {"Popular"}
    ELSE {}

\* C10: popularity guard and pass order.  A run goes watchlist, similar, popular;
\* a pass adds no tag but its own; the popular pass changes the candidates only
\* if use_popular is set, a key is there and fewer than 20 candidates exist when
\* it starts; so with 20 or more after the first two passes it creates none and
\* tags none "Popular".
C10_PopularGuardAndOrder ==
    [][ /\ pc = "watchlist" => (candidates = <<>> /\ pc' = "similar")
        /\ pc = "similar" => pc' \in {"similar", "popular"}
        /\ pc = "popular" => pc' = "enrich"
        /\ pc \in {"watchlist", "similar", "popular", "enrich", "calc"} =>
               TagsIn(candidates') \ TagsIn(candidates) \subseteq PassTag(pc)
        /\ pc \in {"watchlist", "similar"} => "Popular" \notin TagsIn(candidates')
        /\ (pc = "popular" /\ ~(use_popular /\ tmdb_api_key # ""
                                  /\ Len(candidates) < PopularBelow)) =>
               candidates' = candidates
        /\ (pc = "popular" /\ Len(candidates) >= PopularBelow) =>
               (Len(candidates') = Len(candidates) /\ "Popular" \notin TagsIn(candidates'))
      ]_vars

\* the popular pass has been passed with exactly 20 candidates of the first two
\* passes, the popular source on, available and yielding: it added nothing
C10_Witness ==
    /\ pc = "enrich"
    /\ PopularYields
    /\ Len(candidates) = PopularBelow
    /\ "Popular" \notin TagsIn(candidates)
    /\ \E k \in 1..Len(PopularIds) : ~HasKey(candidates, TmdbKey(PopularIds[k]))

\* C11: watched-index invariant.  After any sequence of calls of fetch_data on an
\* engine, global_watched_index is exactly the union of the watched_index sets of
\* the profiles user_data holds: nothing is left over from an earlier fetch.
C11_WatchedIndexIsUnion ==
    pc = "ready" => global_watched_index = GroupWatched

\* the ratings of a user that admit their film as a seed
AdmittedRatings(u) ==
    {i \in 1..Len(Profile(u).ratings) : Profile(u).ratings[i].score >= min_rating_threshold}

FromRating(u, seed) ==
    \E i \in AdmittedRatings(u) :
        /\ Profile(u).ratings[i].slug = seed.slug
        /\ Profile(u).ratings[i].score = seed.score

FromLike(u, seed) ==
    /\ seed.slug \in Profile(u).liked
    /\ \A i \in 1..Len(Profile(u).ratings) : Profile(u).ratings[i].slug # seed.slug
    /\ seed.score = 10
    /\ Cardinality(AdmittedRatings(u)) < LikedBackfillBelow

\* the records of the similar-lookup a selected seed leads to (none if unresolved)
LookupOf(seed) ==
    LET found == tmdb_search_movie(SeedTitle(seed), None, tmdb_api_key, gateway_up)
    IN  IF found = None THEN <<>>
        ELSE tmdb_get_recommendations(found[1].id, tmdb_api_key, gateway_up)

SimilarLogOf(u) == {j \in 1..Len(log) : log[j].tag = "Similar" /\ log[j].user = u}

\* C12: seed selection.  For each user the similar pass processes at most 6 seeds;
\* each comes from a rating of that user with score >= 8 and carries that score, or
\* is a liked slug without a rating, taken as score 10, and then fewer than 5 rated
\* seeds exist; so no rating below 8 makes a seed and no liked slug that has a
\* rating is added as a liked seed.  Each seed leads to one lookup of at most 12
\* records, so a user contributes at most 6 * 12 times.
C12_SeedSelection ==
    \A u \in Users :
        /\ Cardinality(selected[u]) <= SeedCap
        /\ selected[u] # {} => InUserData(u)
        /\ \A seed \in selected[u] :
               /\ FromRating(u, seed) \/ FromLike(u, seed)
               /\ Len(LookupOf(seed)) <= RecCap
        /\ Cardinality(SimilarLogOf(u)) <= SeedCap * RecCap

\* a user with more than 6 rated seeds and a liked film without a rating: 6 seeds
\* were processed, none of them the liked film, and contributed
C12_Witness ==
    /\ pc = "popular"
    /\ \E u \in Fetched :
           /\ Cardinality(AdmittedRatings(u)) > SeedCap
           /\ Cardinality(selected[u]) = SeedCap
           /\ \E seed \in selected[u] : seed.score = min_rating_threshold
           /\ \E slug \in Profile(u).liked :
                  /\ \A i \in 1..Len(Profile(u).ratings) : Profile(u).ratings[i].slug # slug
                  /\ \A seed \in selected[u] : seed.slug # slug
           /\ SimilarLogOf(u) # {}

\* the table of the points, in thirds of a point: 10 -> 100, 9 -> 50, 8 -> 100/3,
\* any other score -> 25
TablePoints(score) ==
    IF score = 10 THEN 300
    ELSE IF score = 9 THEN 150
    ELSE IF score = 8 THEN 100
    ELSE 75

\* the contributions one seed owes to the candidate of a key: one for each record
\* of its lookup that has this key and passes the watched filter, in order
RECURSIVE OwedBySeed(_, _, _, _)
OwedBySeed(seed, from_movie, recs, key) ==
    IF recs = <<>> THEN <<>>
    ELSE LET rec == Head(recs)
             rest == OwedBySeed(seed, from_movie, Tail(recs), key)
         IN  IF TmdbKey(rec.id) = key /\ Unwatched(rec.title, rec.release_year)
             THEN <<[points |-> TablePoints(seed.score), from_movie |-> from_movie,
                     from_score |-> seed.score]>> \o rest
             ELSE rest

\* the contributions the seeds, processed in this order, owe to the candidate
RECURSIVE Owed(_, _)
Owed(order, key) ==
    IF order = <<>> THEN <<>>
    ELSE LET seed == Head(order)
             found == tmdb_search_movie(SeedTitle(seed), None, tmdb_api_key, gateway_up)
         IN  (IF found = None THEN <<>>
              ELSE OwedBySeed(seed, found[1].title, LookupOf(seed), key))
             \o Owed(Tail(order), key)

\* C13: contribution points.  The contributions of a user to a candidate are, for
\* one order of the seeds processed for that user and the order of each lookup's
\* records, exactly one per (seed, record) pair whose record has the candidate's
\* key and passes the watched filter; each carries the seed's score (>= 8) as
\* from_score and the points of the table for that score; and every such record
\* has a candidate.
C13_ContributionPoints ==
    \A u \in Users :
        /\ \E order \in Shuffles(selected[u]) :
               \A i \in 1..Len(candidates) :
                   candidates[i].similar_contributions[u] = Owed(order, candidates[i].key)
        /\ \A i \in 1..Len(candidates) :
               \A k \in 1..Len(candidates[i].similar_contributions[u]) :
                   candidates[i].similar_contributions[u][k].from_score
                       >= min_rating_threshold
        /\ \A seed \in selected[u] : \A k \in 1..Len(LookupOf(seed)) :
               LET rec == LookupOf(seed)[k]
               IN  Unwatched(rec.title, rec.release_year) =>
                       HasKey(candidates, TmdbKey(rec.id))

\* one candidate holds two contributions of one user from seeds of different
\* scores, and a looked-up record was dropped by the watched filter
C13_Witness ==
    /\ pc = "popular"
    /\ \E u \in Fetched :
           /\ \E i \in 1..Len(candidates) :
                  LET cs == candidates[i].similar_contributions[u]
                  IN  /\ Len(cs) >= 2
                      /\ cs[1].from_score # cs[2].from_score
                      /\ cs[1].points # cs[2].points
           /\ \E seed \in selected[u] : \E k \in 1..Len(LookupOf(seed)) :
                  ~Unwatched(LookupOf(seed)[k].title, LookupOf(seed)[k].release_year)

\* the contribution that created the candidate of a key: the first one logged
FirstLogged(key) == log[CHOOSE j \in 1..Len(log) :
                        /\ log[j].key = key
                        /\ \A h \in 1..(j - 1) : log[h].key # key]

\* the key a watchlist entry gets when TMDB answers the search
ResolvedKey(entry) ==
    LET found == tmdb_search_movie(entry.name, ParseYear(entry.year), "key", TRUE)
    IN  IF found = None THEN SlugKey(entry.slug) ELSE TmdbKey(found[1].id)

\* the positions in a user's watchlist that may have contributed to the key
WritersOf(u, key) ==
    {j \in 1..Len(Profile(u).watchlist) :
        LET entry == Profile(u).watchlist[j]
        IN  /\ Unwatched(entry.name, ParseYear(entry.year))
            /\ IF key.kind = "slug" THEN entry.slug = key.slug
               ELSE ResolvedKey(entry) = key}

\* title, year and url of the candidate are those its first writer gave it
FirstWriterKept(cand) ==
    LET first == FirstLogged(cand.key)
    IN  IF first.tag = "Watchlist"
        THEN LET at == WritersOf(first.user, cand.key)
                 entry == Profile(first.user).watchlist[CHOOSE j \in at : \A h \in at : j <= h]
             IN  /\ cand.name = entry.name
                 /\ cand.year = entry.year
                 /\ cand.url = LetterboxdUrl(entry.slug)
        ELSE LET rec == MovieById(cand.key.id)
             IN  /\ cand.key.kind = "tmdb"
                 /\ cand.name = rec.title
                 /\ cand.year = rec.release_year
                 /\ cand.url = (IF first.tag = "Similar" THEN TmdbUrl(rec.id) ELSE NoUrl)
                 /\ cand.tmdb = Some(rec)

AllFirstWritersKept ==
    \A i \in 1..Len(candidates) :
        /\ HasKey(log, candidates[i].key)
        /\ FirstWriterKept(candidates[i])

\* within a run a step keeps every candidate there is, with its key, title, year,
\* url and, if one is attached, its metadata record
StepKeepsIdentity ==
    pc \in {"watchlist", "similar", "popular", "enrich", "calc"} =>
        /\ Len(candidates') >= Len(candidates)
        /\ \A i \in 1..Len(candidates) :
               /\ candidates'[i].key = candidates[i].key
               /\ candidates'[i].name = candidates[i].name
               /\ candidates'[i].year = candidates[i].year
               /\ candidates'[i].url = candidates[i].url
               /\ candidates[i].tmdb # None => candidates'[i].tmdb = candidates[i].tmdb

\* the enrichment step changes nothing but the metadata record of candidates
\* that had none
EnrichmentOnlyFills ==
    pc = "enrich" =>
        /\ Len(candidates') = Len(candidates)
        /\ \A i \in 1..Len(candidates) :
               [candidates'[i] EXCEPT !.tmdb = candidates[i].tmdb] = candidates[i]

\* C14: first writer wins.  A candidate keeps the key, title, year and url its
\* first contribution gave it, whatever contributes later; a metadata record that
\* is attached is never replaced; enrichment attaches a record only where there is
\* none, and it adds or removes no candidate and changes no sources, watchlist
\* users or contributions.
C14_FirstWriterWins ==
    /\ []AllFirstWritersKept
    /\ [][StepKeepsIdentity /\ EnrichmentOnlyFills]_vars

\* enrichment has attached a record to a candidate that two users contributed to,
\* created without one; another candidate has its record from its creation
C14_Witness ==
    /\ pc = "calc"
    /\ \E i \in 1..Len(candidates) :
           /\ candidates[i].key.kind = "slug"
           /\ candidates[i].tmdb # None
           /\ Cardinality(candidates[i].watchlist_users) > 1
    /\ \E i \in 1..Len(candidates) : candidates[i].key.kind = "tmdb"

\* when the candidate of a key was created: the place of its first contribution
CreatedAt(key) == CHOOSE j \in 1..Len(log) :
                      /\ log[j].key = key
                      /\ \A h \in 1..(j - 1) : log[h].key # key

\* C15: Smart Match order.  The list generate_recommendations returns is in
\* non-increasing order of score, and two results of equal score are in the order
\* in which their candidates were created.
C15_SmartMatchOrder ==
    \A i \in 1..Len(results) : \A j \in (i + 1)..Len(results) :
        /\ results[i].score >= results[j].score
        /\ results[i].score = results[j].score =>
               CreatedAt(results[i].id) < CreatedAt(results[j].id)

\* a returned list in which a candidate created later precedes two candidates of
\* equal score
C15_Witness ==
    /\ pc = "done"
    /\ \E i \in 1..Len(results) : \E j \in (i + 1)..Len(results) :
           \E k \in (j + 1)..Len(results) :
               /\ results[i].score > results[j].score
               /\ results[j].score = results[k].score
               /\ CreatedAt(results[i].id) > CreatedAt(results[k].id)

====
